---- MODULE Spec2Model ----
(***************************************************************************)
(* A model of homework.py: the homework-status polling bot.               *)
(*                                                                         *)
(* Python values are tagged records [type, val].  A str is the sequence   *)
(* of the text fragments it was built from, so that an f-string is a      *)
(* concatenation and "contains" is a search, not an identity.  The        *)
(* Russian literals of the source are rendered in English, because the    *)
(* module is ASCII.  A dict is a function from its keys to its values, so *)
(* that "key in d" and d.get(key) are computed from the keys it has.      *)
(***************************************************************************)
EXTENDS Integers, Sequences, FiniteSets, TLC

VARIABLES
    pc,               \* position of the single thread in main()
    env,              \* the environment: the three configuration values
    check,            \* main's local `check`
    timestamp,        \* main's local `timestamp` (the watermark)
    PREVIOUS_STATUS,  \* the module-level global
    response,         \* main's local `response`, while check_response reads it
    homework,         \* main's local `homework`
    message,          \* main's local `message`
    error,            \* the exception bound by `except Exception as error`
    calls,            \* texts handed to bot.send_message in the current cycle
    request,          \* the from_date parameter of the latest GET
    cycle,            \* history of the current cycle (see NewCycle)
    previous,         \* summary of the cycle that just ended (see EndCycle)
    sleeps,           \* time.sleep calls since the latest GET
    slept,            \* seconds slept since the latest GET
    dispatched,       \* the latest status message handed to bot.send_message
    before,           \* PREVIOUS_STATUS when the current cycle's GET started
    delivery,         \* what the latest bot.send_message of the cycle did
    exit_status       \* the process's exit status once it has ended

vars == <<pc, env, check, timestamp, PREVIOUS_STATUS, response, homework,
          message, error, calls, request, cycle, previous, sleeps, slept,
          dispatched, before, delivery, exit_status>>

----------------------------------------------------------------------------
(* Bounds of the model.                                                    *)

\* Longest "homeworks" list a payload carries.
MaxLen == 2
\* Number of distinct cursor (current_date) values the server may report.
MaxCursor == 1

----------------------------------------------------------------------------
(* Program constants.                                                      *)

RETRY_PERIOD == 600
\* datetime.timedelta(days=30), in seconds
LOOKBACK == 2592000

----------------------------------------------------------------------------
(* Python values.                                                          *)

PyNone == [type |-> "NoneType"]
PyBool(b) == [type |-> "bool", val |-> b]
PyInt(n) == [type |-> "int", val |-> n]
\* a str built from the fragments `parts`
PyStr(parts) == [type |-> "str", val |-> parts]
\* a str literal
S(text) == PyStr(<<text>>)
PyList(items) == [type |-> "list", val |-> items]
PyDict(f) == [type |-> "dict", val |-> f]
EmptyDict == [k \in {} |-> PyNone]

isinstance(v, t) == v.type = t

\* The fragments {v} contributes to an f-string: str(v).
Format(v) ==
    CASE v.type = "str" -> v.val
      [] v.type = "NoneType" -> <<"None">>
      [] v.type = "int" -> <<ToString(v.val)>>
      [] OTHER -> <<"<", v.type, ">">>

\* `needle in haystack` for two strs: a contiguous run of fragments.
SubStr(needle, haystack) ==
    \E i \in 0..(Len(haystack) - Len(needle)) :
        \A j \in 1..Len(needle) : haystack[i + j] = needle[j]

\* A call either returns a value or raises an exception.
Return(v) == [kind |-> "return", value |-> v]
Raise(cls, text) == [kind |-> "raise", exc |-> [cls |-> cls, text |-> text]]
NoError == [cls |-> "none", text |-> PyNone]

\* The bases of UndocumentedStatus, which more_exceptions defines: an
\* application error, caught at the loop boundary like the others.
UndocumentedStatusBases == {"UndocumentedStatus", "Exception"}

\* The classes a raised exception is an instance of.  The handlers of the
\* source name requests.RequestException, telegram.error.TelegramError,
\* AttributeError and Exception.
Bases(cls) ==
    CASE cls = "requests.ConnectionError" ->
             {cls, "RequestException", "OSError", "Exception"}
      [] cls = "requests.JSONDecodeError" ->
             {cls, "RequestException", "ValueError", "Exception"}
      [] cls \in {"telegram.NetworkError", "telegram.BadRequest",
                   "telegram.Unauthorized", "telegram.InvalidToken"} ->
             {cls, "TelegramError", "Exception"}
      [] cls = "telegram.TimedOut" ->
             {cls, "telegram.NetworkError", "TelegramError", "Exception"}
      [] cls = "UndocumentedStatus" -> UndocumentedStatusBases
      [] OTHER -> {cls, "Exception"}

----------------------------------------------------------------------------
(* Module-level data.                                                      *)

\* HOMEWORK_VERDICTS: status -> phrase.
HOMEWORK_VERDICTS ==
    [approved |-> "Work checked: the reviewer liked everything. Hooray!",
     reviewing |-> "Work taken for review by the reviewer.",
     rejected |-> "Work checked: the reviewer has remarks."]

\* `key in HOMEWORK_VERDICTS`: hashing a list or a dict raises TypeError.
InVerdicts(key) ==
    IF key.type \in {"list", "dict"}
    THEN Raise("TypeError", S("unhashable type"))
    ELSE Return(PyBool(/\ key.type = "str"
                       /\ Len(key.val) = 1
                       /\ key.val[1] \in DOMAIN HOMEWORK_VERDICTS))

\* The value of the global before any call of parse_status.
InitialPreviousStatus == PyStr(<<>>)

----------------------------------------------------------------------------
(* check_tokens                                                            *)

required_tokens == <<"PRACTICUM_TOKEN", "TELEGRAM_TOKEN", "TELEGRAM_CHAT_ID">>

\* check_tokens with the test of main's lines 169-171: `is None` only.
check_tokens_NoneOnly(environ) ==
    \A i \in 1..Len(required_tokens) : environ[required_tokens[i]] # PyNone

\* os.getenv(token) is None or '' for some token: False, else True.
check_tokens(environ) ==
    \A i \in 1..Len(required_tokens) :
        LET token_values == environ[required_tokens[i]]
        IN ~(token_values = PyNone \/ token_values = PyStr(<<>>))

----------------------------------------------------------------------------
(* get_api_answer                                                          *)

\* What requests.get and response.json() do for one request: the transport
\* fails, or a response arrives with a status code and a body that is JSON
\* or not.  A body that is not JSON makes .json() raise `decode`.
Transport(cls) == [kind |-> "transport", exc |-> cls]
Response(code, body) == [kind |-> "response", status_code |-> code, json |-> Return(body)]
NotJson(code, decode) ==
    [kind |-> "response", status_code |-> code, json |-> Raise(decode, S("Expecting value"))]

get_api_answer(from_date, http) ==
    LET body ==
            IF http.kind = "transport"
            THEN Raise(http.exc, S("connection failed"))
            ELSE IF http.status_code # 200
            THEN Raise("Exception",
                       PyStr(<<"API request error: response code">>
                             \o Format(PyInt(http.status_code))))
            ELSE http.json
    IN  IF body.kind = "raise" /\ "RequestException" \in Bases(body.exc.cls)
        THEN Return(PyNone)   \* logged; the function falls off its end
        ELSE body

----------------------------------------------------------------------------
(* check_response                                                          *)

\* `'homeworks' in response`
Contains(container, key) ==
    CASE container.type = "dict" -> Return(PyBool(key \in DOMAIN container.val))
      [] container.type = "str" -> Return(PyBool(SubStr(<<key>>, container.val)))
      [] container.type = "list" -> Return(PyBool(\E i \in 1..Len(container.val) : container.val[i] = S(key)))
      [] OTHER -> Raise("TypeError",
                        PyStr(<<"argument of type '", container.type, "' is not iterable">>))

\* homework[-1] in the place of homework[0]
FirstItem_Last(items) ==
    IF Len(items) = 0
    THEN Raise("IndexError", S("list index out of range"))
    ELSE Return(items[Len(items)])

\* homework[0]
FirstItem(items) ==
    IF Len(items) = 0
    THEN Raise("IndexError", S("list index out of range"))
    ELSE Return(items[1])

\* check_response that hands the validated payload back.
check_response_PassThrough(resp) ==
    IF isinstance(resp, "list")
    THEN Raise("TypeError", S("Expected a dict, got a list"))
    ELSE LET has == Contains(resp, "homeworks")
         IN  IF has.kind = "raise" THEN has
             ELSE IF ~has.value.val THEN Raise("KeyError", S("'No key \"homeworks\"'"))
             ELSE IF ~isinstance(resp, "dict") \/ ~isinstance(resp.val["homeworks"], "list")
             THEN Raise("TypeError", S("Expected a list"))
             ELSE Return(resp)

check_response(resp) ==
    IF isinstance(resp, "list")
    THEN Raise("TypeError", S("Expected a dict, got a list"))
    ELSE LET has == Contains(resp, "homeworks")
         IN  IF has.kind = "raise" THEN has
             ELSE IF has.value.val
             THEN IF ~isinstance(resp, "dict")
                  THEN Raise("TypeError", S("The API answer was expected to be a dict."))
                  ELSE LET hw == resp.val["homeworks"]
                       IN  IF ~isinstance(hw, "list")
                           THEN Raise("TypeError", S("Expected a list"))
                           ELSE FirstItem(hw.val)
             ELSE Raise("KeyError", S("'No key \"homeworks\"'"))

----------------------------------------------------------------------------
(* parse_status                                                            *)

\* homework.get(key): None when the key is absent; AttributeError when
\* homework is not a dict.
Get(obj, key) ==
    IF obj.type # "dict"
    THEN Raise("AttributeError",
               PyStr(<<"'", obj.type, "' object has no attribute 'get'">>))
    ELSE Return(IF key \in DOMAIN obj.val THEN obj.val[key] ELSE PyNone)

\* f'Status of homework "{homework_name}" changed.{verdict}'
StatusMessage(homework_name, verdict) ==
    PyStr(Append(<<"Status of homework \"">> \o Format(homework_name)
                     \o <<"\" changed.">>,
                 verdict))

\* parse_status without the comparison with the global: every known status
\* yields a message.
parse_status_NoMemory(hw, remembered) ==
    LET got == Get(hw, "status")
        keep(outcome) == [outcome |-> outcome, PREVIOUS_STATUS |-> remembered]
    IN  IF got.kind = "raise" THEN keep(Return(PyNone))
        ELSE IF "homework_name" \notin DOMAIN hw.val
        THEN keep(Raise("KeyError", S("'No key \"homeworks\"'")))
        ELSE IF InVerdicts(got.value).kind = "return" /\ InVerdicts(got.value).value.val
        THEN [outcome |-> Return(StatusMessage(hw.val["homework_name"],
                                               HOMEWORK_VERDICTS[got.value.val[1]])),
              PREVIOUS_STATUS |-> got.value]
        ELSE keep(Raise("UndocumentedStatus", S("Unknown homework status")))

\* parse_status with the verdict looked up before the name is tested.
parse_status_VerdictFirst(hw, remembered) ==
    LET got == Get(hw, "status")
        keep(outcome) == [outcome |-> outcome, PREVIOUS_STATUS |-> remembered]
    IN  IF got.kind = "raise" THEN keep(Return(PyNone))
        ELSE IF got.value = remembered /\ "homework_name" \in DOMAIN hw.val
        THEN keep(Return(PyNone))
        ELSE IF ~(InVerdicts(got.value).kind = "return" /\ InVerdicts(got.value).value.val)
        THEN keep(Raise("UndocumentedStatus", S("Unknown homework status")))
        ELSE IF "homework_name" \notin DOMAIN hw.val
        THEN keep(Raise("KeyError", S("'No key \"homeworks\"'")))
        ELSE [outcome |-> Return(StatusMessage(hw.val["homework_name"],
                                               HOMEWORK_VERDICTS[got.value.val[1]])),
              PREVIOUS_STATUS |-> got.value]

\* parse_status with line 155 moved above line 153: the status is stored
\* in the global before it is looked up in the table.
parse_status_RememberFirst(hw, remembered) ==
    LET got == Get(hw, "status")
        keep(outcome) == [outcome |-> outcome, PREVIOUS_STATUS |-> remembered]
    IN  IF got.kind = "raise" THEN keep(Return(PyNone))
        ELSE IF "homework_name" \notin DOMAIN hw.val
        THEN keep(Raise("KeyError", S("'No key \"homeworks\"'")))
        ELSE IF got.value = remembered THEN keep(Return(PyNone))
        ELSE IF InVerdicts(got.value).kind = "return" /\ InVerdicts(got.value).value.val
        THEN [outcome |-> Return(StatusMessage(hw.val["homework_name"],
                                               HOMEWORK_VERDICTS[got.value.val[1]])),
              PREVIOUS_STATUS |-> got.value]
        ELSE [outcome |-> Raise("UndocumentedStatus", S("Unknown homework status")),
              PREVIOUS_STATUS |-> got.value]

\* The outcome of parse_status(hw) when the global holds `remembered`, and
\* the value the global holds afterwards.
parse_status(hw, remembered) ==
    LET got == Get(hw, "status")
        keep(outcome) == [outcome |-> outcome, PREVIOUS_STATUS |-> remembered]
    IN  IF got.kind = "raise"
        THEN keep(Return(PyNone))       \* except AttributeError: return None
        ELSE LET status == got.value
                 has_name == Contains(hw, "homework_name")
             IN  IF ~has_name.value.val
                 THEN keep(Raise("KeyError", S("'No key \"homeworks\"'")))
                 ELSE IF status = remembered
                 THEN keep(Return(PyNone))   \* pass; falls off the end
                 ELSE LET known == InVerdicts(status)
                      IN  IF known.kind = "raise" THEN keep(known)
                          ELSE IF known.value.val
                          THEN [outcome |->
                                    Return(StatusMessage(
                                        Get(hw, "homework_name").value,
                                        HOMEWORK_VERDICTS[status.val[1]])),
                                PREVIOUS_STATUS |-> status]
                          ELSE keep(Raise("UndocumentedStatus",
                                          S("Unknown homework status")))

----------------------------------------------------------------------------
(* send_message                                                            *)

\* send_message without its try/except: what the channel raises leaves it.
send_message_NoCatch(text, channel) ==
    IF channel.kind = "raise" THEN channel ELSE Return(PyNone)

\* bot.send_message(chat_id, text) either returns or raises `channel`.
\* Only a telegram.error.TelegramError is caught (and logged).
send_message(text, channel) ==
    IF channel.kind = "raise" /\ "TelegramError" \in Bases(channel.exc.cls)
    THEN Return(PyNone)
    ELSE IF channel.kind = "raise" THEN channel
    ELSE Return(PyNone)

\* The level of the record send_message writes to the log: debug after the
\* send returned, error in the handler of TelegramError, none when the
\* exception leaves the function.
send_message_log(text, channel) ==
    IF channel.kind = "return" THEN "debug"
    ELSE IF "TelegramError" \in Bases(channel.exc.cls) THEN "error"
    ELSE "none"

----------------------------------------------------------------------------
(* The environment of the process: configuration, server and channel.      *)

\* A key that a dict does not have.
Absent == [type |-> "absent"]
Entry(key, v) == IF v = Absent THEN EmptyDict ELSE (key :> v)

TokenValues == {PyNone, PyStr(<<>>), S("secret")}
Environs == [{required_tokens[i] : i \in 1..Len(required_tokens)} -> TokenValues]

\* int(time.time()) at startup, and the cursors the server reports later.
Nows == {1790000000}
Cursors == {1790000000 + RETRY_PERIOD * c : c \in 1..MaxCursor}

Names == {S("hw1"), S("hw2")}
Statuses == {S(k) : k \in DOMAIN HOMEWORK_VERDICTS} \cup {S("unknown_code"), PyStr(<<>>)}

\* The items of a "homeworks" list: dicts with or without a status and a
\* name, and an item that is not a dict.
Records ==
    {PyDict(Entry("status", s) @@ Entry("homework_name", n)) :
        s \in Statuses \cup {Absent}, n \in Names \cup {Absent}}
    \cup {S("not a record")}

RecordLists == UNION {[1..n -> Records] : n \in 0..MaxLen}

\* The JSON bodies of a 200 response: mappings with or without the two
\* keys, and bodies that are not mappings.
Payloads ==
    {PyDict(Entry("homeworks", h) @@ Entry("current_date", c)) :
        h \in {PyList(l) : l \in RecordLists}
              \cup {Absent, PyNone, S("none"), PyDict(EmptyDict)},
        c \in {PyInt(d) : d \in Cursors} \cup {Absent}}
    \cup {PyList(<<>>), PyList(<<S("homeworks")>>), PyNone, PyInt(0),
          S("error"), PyStr(<<"no ", "homeworks", " yet">>)}

HttpOutcomes ==
    {Transport("requests.ConnectionError")}
    \cup {Response(code, PyDict("code" :> S("error"))) : code \in {401, 500}}
    \cup {NotJson(200, d) : d \in {"requests.JSONDecodeError", "ValueError"}}
    \cup {Response(200, p) : p \in Payloads}

\* What bot.send_message does: it returns, or it raises one of the
\* library's errors (the request layer wraps what the transport raises; the
\* server's refusals are BadRequest and Unauthorized).
SendFailures ==
    {Raise("telegram.NetworkError", S("urllib3 HTTPError")),
     Raise("telegram.TimedOut", S("Timed out")),
     Raise("telegram.BadRequest", S("Message text is empty")),
     Raise("telegram.Unauthorized", S("Forbidden: bot was blocked by the user"))}
SendOutcomes == {Return(PyNone)} \cup SendFailures

\* telegram.Bot(token=...): the constructor validates the token and raises
\* InvalidToken for the empty string.
Bot(token) ==
    IF token = PyStr(<<>>)
    THEN Raise("telegram.InvalidToken", S("Invalid token"))
    ELSE Return([type |-> "Bot", token |-> token])

----------------------------------------------------------------------------
(* main                                                                    *)

\* A local that holds no value the code will read.
Unbound == [type |-> "unbound"]

\* What the cycle that starts with this GET is about.
NewCycle(http, got) ==
    LET mapping == got.kind = "return" /\ got.value.type = "dict"
        field(key) == IF mapping /\ key \in DOMAIN got.value.val
                      THEN got.value.val[key] ELSE Absent
    IN  [fetch |-> IF http.kind = "transport" THEN "transport"
                   ELSE IF http.status_code # 200 THEN "non200"
                   ELSE IF http.json.kind = "raise" THEN "notjson"
                   ELSE "ok",
         cursor |-> field("current_date"),
         \* the length of the "homeworks" list and its two ends
         count |-> IF field("homeworks").type # "list" THEN -1
                   ELSE Len(field("homeworks").val),
         first |-> IF field("homeworks").type # "list" \/ field("homeworks").val = <<>>
                   THEN Absent ELSE field("homeworks").val[1],
         last |-> IF field("homeworks").type # "list" \/ field("homeworks").val = <<>>
                  THEN Absent
                  ELSE field("homeworks").val[Len(field("homeworks").val)],
         failed |-> got.kind = "raise"]

\* A cycle ends when its sleep returns: what the next cycle can be compared
\* with is whether the GET succeeded, the cursor it carried and whether an
\* exception reached the handler.
EndCycle(c) == [fetch |-> c.fetch, cursor |-> c.cursor, failed |-> c.failed]

Init ==
    /\ pc = "start"
    /\ env \in Environs
    /\ check = Unbound
    /\ timestamp = Unbound
    /\ PREVIOUS_STATUS = InitialPreviousStatus
    /\ response = Unbound
    /\ homework = Unbound
    /\ message = Unbound
    /\ error = NoError
    /\ calls = <<>>
    /\ request = Unbound
    /\ cycle = Unbound
    /\ previous = Unbound
    /\ sleeps = 0
    /\ slept = 0
    /\ dispatched = PyNone
    /\ before = Unbound
    /\ delivery = "none"
    /\ exit_status = PyNone

\* Where an exception raised in the try block takes the thread: into
\* `except Exception as error`, or out of main when it is no Exception.
HandlerFor(exc) == IF "Exception" \in Bases(exc.cls) THEN "except" ELSE "crashed"

Raised(exc) ==
    /\ pc' = HandlerFor(exc)
    /\ error' = IF HandlerFor(exc) = "except" THEN exc ELSE error
    /\ exit_status' = IF HandlerFor(exc) = "except" THEN exit_status ELSE PyInt(1)

Caught(exc) ==
    /\ Raised(exc)
    /\ cycle' = [cycle EXCEPT !.failed = TRUE]

\* Lines 169-178: the import-time values are tested for None, then
\* check_tokens, the Bot and the watermark.  An exception of the Bot's
\* constructor is outside the try block: it ends the process with a
\* traceback.
Start ==
    /\ pc = "start"
    /\ IF \E i \in 1..Len(required_tokens) : env[required_tokens[i]] = PyNone
       THEN /\ pc' = "exited"
            /\ exit_status' = PyInt(1)        \* sys.exit(1)
            /\ UNCHANGED <<check, timestamp>>
       ELSE /\ check' = PyBool(check_tokens(env))
            /\ IF Bot(env["TELEGRAM_TOKEN"]).kind = "raise"
               THEN /\ pc' = "crashed"
                    /\ exit_status' = PyInt(1)
                    /\ UNCHANGED timestamp
               ELSE /\ pc' = "loop"
                    /\ \E now \in Nows : timestamp' = PyInt(now - LOOKBACK)
                    /\ UNCHANGED exit_status
    /\ UNCHANGED <<env, before, dispatched, PREVIOUS_STATUS, response, homework, message, error,
                   calls, request, cycle, previous, sleeps, slept, delivery>>

\* Lines 182-184: `break` leaves the loop and main returns.
Break ==
    /\ pc = "loop"
    /\ check = PyBool(FALSE)
    /\ pc' = "returned"
    /\ exit_status' = PyInt(0)
    /\ UNCHANGED <<env, before, dispatched, check, timestamp, PREVIOUS_STATUS, response, homework,
                   message, error, calls, request, cycle, previous, sleeps, slept,
                   delivery>>

\* Line 186: response = get_api_answer(timestamp), the server answering
\* with one of `outcomes`.
GetApiAnswer(outcomes) ==
    /\ pc = "loop"
    /\ check # PyBool(FALSE)
    /\ \E http \in outcomes :
        LET got == get_api_answer(timestamp.val, http)
        IN  /\ request' = timestamp
            /\ cycle' = NewCycle(http, got)
            /\ IF got.kind = "return"
               THEN /\ response' = got.value
                    /\ pc' = "check_response"
                    /\ UNCHANGED <<error, exit_status>>
               ELSE /\ Raised(got.exc)
                    /\ UNCHANGED response
    /\ sleeps' = 0
    /\ slept' = 0
    /\ before' = PREVIOUS_STATUS
    /\ previous' = Unbound     \* the GET is what it is compared with
    /\ UNCHANGED <<env, dispatched, check, timestamp, PREVIOUS_STATUS, homework, message,
                   calls, delivery>>

\* Line 188: homework = check_response(response).  Nothing reads
\* `response` again before line 186 assigns it.
CheckResponse ==
    /\ pc = "check_response"
    /\ LET checked == check_response(response)
       IN  IF checked.kind = "return"
           THEN /\ homework' = checked.value
                /\ pc' = "parse_status"
                /\ UNCHANGED <<error, cycle, exit_status>>
           ELSE /\ Caught(checked.exc)
                /\ UNCHANGED homework
    /\ response' = Unbound
    /\ UNCHANGED <<env, before, dispatched, check, timestamp, PREVIOUS_STATUS, message, calls,
                   request, previous, sleeps, slept, delivery>>

\* Line 191: message = parse_status(homework)
ParseStatus ==
    /\ pc = "parse_status"
    /\ LET parsed == parse_status(homework, PREVIOUS_STATUS)
       IN  /\ PREVIOUS_STATUS' = parsed.PREVIOUS_STATUS
           /\ IF parsed.outcome.kind = "return"
              THEN /\ message' = parsed.outcome.value
                   /\ pc' = "send_message"
                   /\ UNCHANGED <<error, cycle, exit_status>>
              ELSE /\ Caught(parsed.outcome.exc)
                   /\ UNCHANGED message
    /\ UNCHANGED <<env, before, dispatched, check, timestamp, response, homework, calls, request,
                   previous, sleeps, slept, delivery>>

\* Line 193: send_message(bot, message)
SendMessage ==
    /\ pc = "send_message"
    /\ calls' = Append(calls, message)
    /\ dispatched' = IF message = PyNone THEN dispatched ELSE message
    /\ \E channel \in SendOutcomes :
        LET sent == send_message(message, channel)
        IN  /\ delivery' = channel.kind
            /\ IF sent.kind = "return"
               THEN /\ pc' = "sleep"
                    /\ UNCHANGED <<error, cycle, exit_status>>
               ELSE Caught(sent.exc)
    /\ UNCHANGED <<env, before, check, timestamp, PREVIOUS_STATUS, response, homework,
                   message, request, previous, sleeps, slept>>

\* Line 195: time.sleep(RETRY_PERIOD), the end of the iteration.  The next
\* iteration assigns homework and message before it reads them, and the
\* history starts afresh.
Sleep ==
    /\ pc = "sleep"
    /\ sleeps' = sleeps + 1
    /\ slept' = slept + RETRY_PERIOD
    /\ pc' = "loop"
    /\ homework' = Unbound
    /\ message' = Unbound
    /\ previous' = EndCycle(cycle)
    /\ cycle' = Unbound
    /\ before' = Unbound
    /\ calls' = <<>>
    /\ delivery' = "none"
    /\ UNCHANGED <<env, dispatched, check, timestamp, PREVIOUS_STATUS, response, error,
                   request, exit_status>>

\* The handler without line 199: the error is logged and not relayed.
Except_LogOnly ==
    /\ pc = "except"
    /\ message' = PyStr(<<"Program failure: ">> \o Format(error.text))
    /\ pc' = "except_sleep"
    /\ UNCHANGED <<env, before, dispatched, check, timestamp, PREVIOUS_STATUS, response, homework,
                   error, calls, request, cycle, previous, sleeps, slept, delivery,
                   exit_status>>

\* Lines 196-199: the handler logs, builds `message` and relays the error.
\* An exception that send_message lets through leaves main.
Except ==
    /\ pc = "except"
    /\ message' = PyStr(<<"Program failure: ">> \o Format(error.text))
    /\ LET text == PyStr(<<"An error occurred: ">> \o Format(error.text))
       IN  /\ calls' = Append(calls, text)
           /\ \E channel \in SendOutcomes :
               /\ delivery' = channel.kind
               /\ IF send_message(text, channel).kind = "return"
                  THEN /\ pc' = "except_sleep"
                       /\ UNCHANGED exit_status
                  ELSE /\ pc' = "crashed"      \* traceback, status 1
                       /\ exit_status' = PyInt(1)
    /\ UNCHANGED <<env, before, dispatched, check, timestamp, PREVIOUS_STATUS, response, homework,
                   error, request, cycle, previous, sleeps, slept>>

\* The handler without line 200: back to the top of the loop at once.
ExceptSleep_Skipped ==
    /\ pc = "except_sleep"
    /\ pc' = "loop"
    /\ error' = NoError
    /\ homework' = Unbound
    /\ message' = Unbound
    /\ previous' = EndCycle(cycle)
    /\ cycle' = Unbound
    /\ before' = Unbound
    /\ calls' = <<>>
    /\ delivery' = "none"
    /\ UNCHANGED <<env, dispatched, check, timestamp, PREVIOUS_STATUS, response, request,
                   sleeps, slept, exit_status>>

\* Line 200: time.sleep(RETRY_PERIOD) in the handler, whose end unbinds
\* `error`.
ExceptSleep ==
    /\ pc = "except_sleep"
    /\ sleeps' = sleeps + 1
    /\ slept' = slept + RETRY_PERIOD
    /\ pc' = "loop"
    /\ error' = NoError
    /\ homework' = Unbound
    /\ message' = Unbound
    /\ previous' = EndCycle(cycle)
    /\ cycle' = Unbound
    /\ before' = Unbound
    /\ calls' = <<>>
    /\ delivery' = "none"
    /\ UNCHANGED <<env, dispatched, check, timestamp, PREVIOUS_STATUS, response, request,
                   exit_status>>

\* The steps of the process, the server answering from `outcomes`.
Step(outcomes) ==
    \/ Start
    \/ Break
    \/ GetApiAnswer(outcomes)
    \/ CheckResponse
    \/ ParseStatus
    \/ SendMessage
    \/ Sleep
    \/ Except
    \/ ExceptSleep

Next == Step(HttpOutcomes)

Spec == Init /\ [][Next]_vars

\* For the behaviours over time: the interpreter runs the single thread
\* whenever it can take a step (none of the calls blocks for ever), and the
\* server answers with every kind of outcome, its lists holding at most
\* one record.
ShortOutcomes ==
    {http \in HttpOutcomes :
        (http.kind = "response" /\ http.json.kind = "return"
         /\ http.json.value.type = "dict"
         /\ "homeworks" \in DOMAIN http.json.value.val
         /\ http.json.value.val["homeworks"].type = "list")
            => Len(http.json.value.val["homeworks"].val) <= 1}

FairNext == Step(ShortOutcomes)

FairSpec == Init /\ [][FairNext]_vars /\ WF_vars(FairNext)

----------------------------------------------------------------------------
(* Claims.                                                                 *)

\* The startup credential check has passed.
CheckPassed == check = PyBool(TRUE)
\* The step is the GET of a new cycle.
IsGet == pc = "loop" /\ pc' \in {"check_response", "except"}

\* C1: after a cycle whose fetch succeeded (and that ended without an
\* error) with a cursor in its payload, the next GET's from_date is that
\* cursor; after a successful fetch without a cursor it is the from_date
\* of the GET before.
C1_WatermarkFollowsCursor ==
    [][(IsGet /\ previous # Unbound /\ previous.fetch = "ok" /\ ~previous.failed)
          => IF previous.cursor # Absent
             THEN request' = previous.cursor
             ELSE request' = request]_vars

\* C2: once the credential check has passed the process never ends, every
\* GET's cycle reaches its sleep and every sleep is followed by another GET,
\* whatever the server and the channel do.
C2_PollLoopNeverStops ==
    /\ [](CheckPassed => pc \notin {"exited", "returned", "crashed"})
    /\ (CheckPassed /\ sleeps = 0) ~> (sleeps = 1)
    /\ (CheckPassed /\ sleeps = 1) ~> (sleeps = 0)

\* C2's case: the relay of an error failed to deliver, and the process is
\* in the handler's sleep, on its way to the next GET.
C2_RelayFailedLoopGoesOn ==
    /\ CheckPassed
    /\ pc = "except_sleep"
    /\ delivery = "raise"
    /\ Len(calls) = 1

\* C3: in a cycle whose payload is a mapping with an empty "homeworks"
\* list, bot.send_message is not called, no exception reaches the handler
\* and the watermark stays what the GET used.
C3_EmptyListIsQuiet ==
    (cycle # Unbound /\ cycle.count = 0)
        => /\ calls = <<>>
           /\ ~cycle.failed
           /\ pc # "except"
           /\ timestamp = request

----------------------------------------------------------------------------
(* Claims about check_response's choice and parse_status.                  *)

\* The payload is a mapping whose "homeworks" is a list.
ValidPayload(resp) ==
    /\ resp.type = "dict"
    /\ "homeworks" \in DOMAIN resp.val
    /\ resp.val["homeworks"].type = "list"
RecordsOf(resp) == resp.val["homeworks"].val

KnownRecord(hw) ==
    /\ hw.type = "dict"
    /\ "homework_name" \in DOMAIN hw.val
    /\ "status" \in DOMAIN hw.val
    /\ hw.val["status"] \in {S(k) : k \in DOMAIN HOMEWORK_VERDICTS}

\* msg is a str that contains hw's identifier and the phrase of hw's
\* status, and the phrase of no other status.
IsMessageFor(msg, hw) ==
    /\ msg.type = "str"
    /\ SubStr(hw.val["homework_name"].val, msg.val)
    /\ \A k \in DOMAIN HOMEWORK_VERDICTS :
           SubStr(<<HOMEWORK_VERDICTS[k]>>, msg.val) <=> (S(k) = hw.val["status"])

\* C5 as stated: in every reachable state parse_status on a record with a
\* known status and an identifier returns a message with the identifier and
\* the phrase of exactly that status; it never returns nothing.
C5_AlwaysAMessage ==
    [][(pc = "parse_status" /\ KnownRecord(homework))
          => /\ pc' = "send_message"
             /\ IsMessageFor(message', homework)]_vars

\* C5 amended: on such a record parse_status returns that message, and
\* remembers the status, when the status differs from the remembered
\* previous status; when it equals it, parse_status returns None and
\* remembers nothing new.
C5_MessageUnlessUnchanged ==
    [][(pc = "parse_status" /\ KnownRecord(homework))
          => /\ pc' = "send_message"
             /\ IF homework.val["status"] = PREVIOUS_STATUS
                THEN message' = PyNone /\ PREVIOUS_STATUS' = PREVIOUS_STATUS
                ELSE /\ IsMessageFor(message', homework)
                     /\ PREVIOUS_STATUS' = homework.val["status"]]_vars

\* C5's case: parse_status has returned None for a record with a known
\* status and an identifier.
C5_KnownRecordGaveNone ==
    /\ pc = "send_message"
    /\ KnownRecord(homework)
    /\ message = PyNone

\* parse_status has just raised `error` (no send was attempted since).
ParseRaised == pc = "except" /\ homework # Unbound /\ calls = <<>>
\* What a second call with the same record would do now.
SecondCall == parse_status(homework, PREVIOUS_STATUS)

\* C6 as stated: a second call of parse_status with the identical record,
\* right after the first, has the outcome of the first.
C6_SecondCallSameResult ==
    /\ pc = "send_message" => SecondCall.outcome = Return(message)
    /\ ParseRaised => SecondCall.outcome = [kind |-> "raise", exc |-> error]

\* C6 amended: the second call has the outcome of the first, except after
\* a first call that returned a message: then the second returns None.  The
\* second call changes nothing.
C6_SecondCallSameUnlessMessage ==
    /\ pc = "send_message" =>
          /\ SecondCall.outcome =
                 IF message.type = "str" THEN Return(PyNone) ELSE Return(message)
          /\ SecondCall.PREVIOUS_STATUS = PREVIOUS_STATUS
    /\ ParseRaised =>
          /\ SecondCall.outcome = [kind |-> "raise", exc |-> error]
          /\ SecondCall.PREVIOUS_STATUS = PREVIOUS_STATUS

\* C6's case: the first call has returned a message.
C6_FirstCallGaveMessage ==
    /\ pc = "send_message"
    /\ message.type = "str"

\* hw.get('status'), for a record that is a mapping.
StatusOf(hw) == IF "status" \in DOMAIN hw.val THEN hw.val["status"] ELSE PyNone
IsKey(status) == status \in {S(k) : k \in DOMAIN HOMEWORK_VERDICTS}
\* The step is a parse_status call that raises an exception of class cls.
ParseRaises(cls) ==
    /\ pc' = "except"
    /\ error'.cls = cls
    /\ PREVIOUS_STATUS' = PREVIOUS_STATUS

----------------------------------------------------------------------------
(* Claims about check_response's and get_api_answer's outcomes.            *)

\* The step is a check_response call that raises an exception of class cls.
CheckRaises(cls) == pc' = "except" /\ error'.cls = cls

\* C8: check_response raises the shape error (TypeError) for every payload
\* that is not a mapping, and the missing-field error (KeyError), another
\* class, for every mapping whose "homeworks" is absent or not a list.
C8_ShapeAndMissingField ==
    [][pc = "check_response"
          => /\ response.type # "dict" => CheckRaises("TypeError")
             /\ (response.type = "dict" /\ ~ValidPayload(response))
                    => CheckRaises("KeyError")]_vars

C10_TransportErrorReachesHandler ==
    (cycle # Unbound /\ cycle.fetch = "transport")
        => /\ pc \in {"except", "except_sleep"}
           /\ "RequestException" \in Bases(error.cls)

----------------------------------------------------------------------------
(* Claims about send_message and the handler at the loop boundary.         *)

\* f'An error occurred: {error}', the text the handler relays.
RelayText == PyStr(<<"An error occurred: ">> \o Format(error.text))
\* The text send_message is about to be called with, if it is.
PendingText ==
    IF pc = "send_message" THEN message
    ELSE IF pc = "except" THEN RelayText
    ELSE Unbound

\* C11: whenever send_message is about to be called, with a message, with
\* None or with the handler's text, it returns None to its caller whatever
\* the channel's send does, and every failure of the send is logged at
\* error level.
C11_SendMessageNeverRaises ==
    PendingText # Unbound =>
        \A channel \in SendOutcomes :
            /\ send_message(PendingText, channel) = Return(PyNone)
            /\ channel.kind = "raise" =>
                   send_message_log(PendingText, channel) = "error"

\* C11's case: the send of a None text failed, and send_message returned
\* to main, which is at its sleep.
C11_FailedSendOfNoneReturned ==
    /\ pc = "sleep"
    /\ message = PyNone
    /\ calls = <<PyNone>>
    /\ delivery = "raise"

\* The exception `error` is what the handler has caught in this cycle.
InHandler == pc \in {"except", "except_sleep"}
\* A record whose fields make the extraction fail: no identifier, or a
\* status that is absent or no key of the table (and not the remembered
\* one, which is tested first).
UnusableRecord(hw) ==
    /\ hw.type = "dict"
    /\ \/ "homework_name" \notin DOMAIN hw.val
       \/ ~IsKey(StatusOf(hw)) /\ StatusOf(hw) # PREVIOUS_STATUS

----------------------------------------------------------------------------
(* Claims about the credential check.                                      *)

\* The process has ended.
Ended == pc \in {"exited", "returned", "crashed"}

\* C13: when one of the three configuration values is missing or empty,
\* the process makes no request and sends nothing, and once it has ended
\* its exit status is not zero.
C13_FailedGateExitsNonZero ==
    ~check_tokens(env) =>
        /\ pc \in {"start", "loop"} \cup {"exited", "returned", "crashed"}
        /\ request = Unbound /\ calls = <<>>
        /\ Ended => exit_status \notin {PyNone, PyInt(0)}

\* The configuration values that are missing or empty.
Unset == {k \in DOMAIN env : env[k] \in {PyNone, PyStr(<<>>)}}

----------------------------------------------------------------------------
(* Claims about the cadence of the loop.                                   *)

\* C15: the first GET follows no sleep; every later GET starts when the
\* cycle before it, ended with or without an error, has slept once, for
\* RETRY_PERIOD seconds.  A sleep is the last step of its cycle, and a
\* cycle that is about to sleep has not slept.
C15_OneSleepBetweenFetches ==
    /\ [](/\ sleeps \in {0, 1}
          /\ slept = sleeps * RETRY_PERIOD
          /\ pc \in {"check_response", "parse_status", "send_message",
                     "sleep", "except", "except_sleep"} => sleeps = 0)
    /\ [][/\ IsGet =>
                 IF request = Unbound
                 THEN sleeps = 0 /\ previous = Unbound
                 ELSE sleeps = 1 /\ slept = RETRY_PERIOD /\ previous # Unbound
          /\ slept' > slept =>
                 /\ pc \in {"sleep", "except_sleep"} /\ pc' = "loop"
                 /\ cycle # Unbound /\ previous' = EndCycle(cycle)]_vars

\* C15's case: a cycle that ended in the handler has slept once and the
\* next GET is about to start.
C15_FailedCycleSleptOnce ==
    /\ pc = "loop"
    /\ request # Unbound
    /\ previous # Unbound /\ previous.failed
    /\ slept = RETRY_PERIOD

----------------------------------------------------------------------------
(* Claims about what is handed to the channel.                             *)

\* The statuses whose verdict phrase the text contains.
VerdictsIn(text) ==
    IF text.type # "str" THEN {}
    ELSE {S(k) : k \in {v \in DOMAIN HOMEWORK_VERDICTS :
                            SubStr(<<HOMEWORK_VERDICTS[v]>>, text.val)}}
\* A status message: a str with the phrase of one status.
IsStatusMessage(text) == Cardinality(VerdictsIn(text)) = 1
\* The record may be announced: it has an identifier, and its status is a
\* key of the table that the latest status message does not carry.
Announceable(hw) ==
    /\ KnownRecord(hw)
    /\ hw.val["status"] \notin VerdictsIn(dispatched)

\* C16: a cycle hands a status message to send_message exactly when it
\* has selected a record that has an identifier and a status that is a
\* key of the table and is not the status of the latest status message
\* handed over before (any key when there was none).  A cycle that ends
\* in the handler hands over no status message.  A status message handed
\* over carries another verdict than the one before it.
C16_MessageIffStatusChanged ==
    /\ [](/\ dispatched # PyNone => IsStatusMessage(dispatched)
          /\ pc = "send_message" =>
                 /\ calls = <<>>
                 /\ IsStatusMessage(message) <=> Announceable(homework)
                 /\ IsStatusMessage(message) => IsMessageFor(message, homework)
                 /\ ~IsStatusMessage(message) => message = PyNone
          /\ InHandler => \A i \in 1..Len(calls) : ~IsStatusMessage(calls[i])
          /\ Len(calls) <= 1)
    /\ [][/\ (pc = "parse_status" /\ Announceable(homework)) => pc' = "send_message"
          /\ dispatched' # dispatched =>
                 /\ pc = "send_message" /\ calls' = <<dispatched'>>
                 /\ VerdictsIn(dispatched') \cap VerdictsIn(dispatched) = {}]_vars

\* C16's case: after a status message about one submission, a cycle
\* selected another submission with the same known status, and what it
\* handed to send_message is no status message.
C16_OtherSubmissionSameVerdictSilent ==
    /\ pc = "sleep"
    /\ KnownRecord(homework)
    /\ homework.val["status"] \in VerdictsIn(dispatched)
    /\ ~SubStr(homework.val["homework_name"].val, dispatched.val)
    /\ calls = <<PyNone>>

\* A failure description: the handler's text, with the error's own text.
IsFailureDescription(text) ==
    /\ text.type = "str"
    /\ SubStr(<<"An error occurred: ">>, text.val)

\* C17, on the cycles that selected a record with an identifier and a
\* known status: every text handed to bot.send_message is a status message
\* or a failure description, never None.
C17_NeverNullText ==
    KnownRecord(homework) =>
        \A i \in 1..Len(calls) :
            /\ calls[i] # PyNone
            /\ IsStatusMessage(calls[i]) \/ IsFailureDescription(calls[i])

----------------------------------------------------------------------------
(* Claims about the state carried between cycles.                          *)

\* C18: in a cycle that has reached the handler, and when that cycle
\* ends, the watermark is the from_date of the cycle's GET and
\* PREVIOUS_STATUS is what it was when the GET started.
C18_FailedCycleKeepsCarriedState ==
    /\ [](InHandler => timestamp = request /\ PREVIOUS_STATUS = before)
    /\ [][pc = "except_sleep" =>
              /\ pc' = "loop"
              /\ timestamp' = request
              /\ PREVIOUS_STATUS' = before]_vars

\* C18's case: a cycle that started with a status remembered has failed in
\* parse_status and is at the handler's sleep.
C18_FailedAfterARememberedStatus ==
    /\ pc = "except_sleep"
    /\ homework # Unbound
    /\ before # InitialPreviousStatus
    /\ PREVIOUS_STATUS = before

\* C19: PREVIOUS_STATUS is the empty string or a key of HOMEWORK_VERDICTS.
\* It changes only in a parse_status call that returns a status message,
\* and the new value is the record's status, the one status whose phrase
\* (as the table has it) the message carries.
C19_PreviousStatusIsEmptyOrKey ==
    /\ [](PREVIOUS_STATUS = InitialPreviousStatus \/ IsKey(PREVIOUS_STATUS))
    /\ [][PREVIOUS_STATUS' # PREVIOUS_STATUS =>
              /\ pc = "parse_status" /\ pc' = "send_message"
              /\ IsStatusMessage(message')
              /\ VerdictsIn(message') = {PREVIOUS_STATUS'}
              /\ PREVIOUS_STATUS' = StatusOf(homework)]_vars

\* C19's case: a parse_status call that returned a message has replaced
\* one remembered key by another.
C19_KeyReplacedByAnotherKey ==
    /\ pc = "send_message"
    /\ IsStatusMessage(message)
    /\ IsKey(before)
    /\ IsKey(PREVIOUS_STATUS)
    /\ PREVIOUS_STATUS # before

====
